---- MODULE Spec2Model ----
(***************************************************************************)
(* Model of the text buffer of the Vi-rs editor: Row (one line of text,    *)
(* src/src/buffer/row.rs), Cursor and Buffer (src/src/buffer.rs).          *)
(*                                                                         *)
(* A String is modelled as the sequence of its chars.  Each char is a      *)
(* one-character code that stands for a class of Unicode scalar values:    *)
(*   "a"   an ASCII letter (1 byte in UTF-8)                               *)
(*   "\t"  the tab, U+0009 (1 byte, Grapheme_Cluster_Break = Control,      *)
(*         White_Space)                                                    *)
(*   " "   the space, U+0020 (1 byte, White_Space)                         *)
(*   "E"   a precomposed letter such as U+00E4 (2 bytes)                   *)
(*   "m"   a combining mark such as U+0306 (2 bytes,                       *)
(*         Grapheme_Cluster_Break = Extend)                                *)
(* A usize that has wrapped below zero is written as the negative integer  *)
(* congruent to it modulo 2^64.                                            *)
(***************************************************************************)
EXTENDS Integers, Sequences, FiniteSets, TLC

VARIABLES
    contents,        \* Buffer.contents: the rows of the document
    offset,          \* Buffer.offset: index of the first visible row
    cursor,          \* Buffer.cursor: [previous_x, x, y]
    panicked,        \* TRUE once an operation has panicked (the process is gone)
    screen_rows,     \* terminal rows minus one, as the editor passes to the buffer
    build,           \* "release" once an overflow has wrapped, so that the run is
                     \* of a build without overflow checks; "any" until then
    screen,          \* the rows printed by the last draw_rows call
    last,            \* the last operation called, its argument and the state it saw
    anchor,          \* column at the start of the current run of vertical moves
    caret,           \* the terminal caret, [column, row], as the cursor commands
                     \* written to stdout have moved it
    row,             \* a Row on its own (pure Row operations)
    row_last         \* the last Row operation, its arguments and the raw it saw

vars == <<contents, offset, cursor, panicked, screen_rows, build,
          screen, last, anchor, caret, row, row_last>>

bufvars == <<contents, offset, cursor, panicked, screen_rows, build,
             screen, last, anchor, caret>>

rowvars == <<row, row_last>>

----------------------------------------------------------------------------
(* Bounds of the model *)

\* longest raw, in chars, that an insertion may still extend (Row operations)
MaxRowChars == 3
\* largest number of chars in a whole document that insert_char may still extend
MaxDocChars == 1
\* largest number of rows new_line_* may still extend
MaxRows == 2
\* largest count passed to a movement
MaxCount == 2
\* largest terminal height (rows available to the buffer)
MaxScreenRows == 2
\* largest column move_right_forced may still move to
MaxColumn == 3

\* SpecEdit: the number of chars typed into the document
MaxEditChars == 2

----------------------------------------------------------------------------
(* Characters and strings *)

TAB_STOP == 8

TAB == "\t"
SPACE == " "
MARK == "m"
WIDE == "E"
LETTER == "a"

\* the characters of the lines given to the Row operations
Chars == {LETTER, TAB, WIDE, MARK}

\* the characters typed into the Buffer
TypedChars == {LETTER, TAB, MARK}

\* None of Option<usize>
None == -1

\* a char as u32, its Unicode scalar value: 'a', tab, space, U+00E4,
\* U+0306
CharCode(c) ==
    CASE c = LETTER -> 97
      [] c = TAB    -> 9
      [] c = SPACE  -> 32
      [] c = WIDE   -> 228
      [] c = MARK   -> 774

\* char::len_utf8
Utf8Len(c) == IF c \in {WIDE, MARK} THEN 2 ELSE 1

\* char::is_whitespace
IsWhitespace(c) == c \in {TAB, SPACE}

\* Grapheme_Cluster_Break = Extend
IsExtend(c) == c = MARK

\* Grapheme_Cluster_Break = Control
IsControl(c) == c = TAB

RECURSIVE ByteLen(_)
\* String::len: the length in bytes
ByteLen(s) == IF s = <<>> THEN 0 ELSE Utf8Len(Head(s)) + ByteLen(Tail(s))

\* the char positions (1-based) at which an extended grapheme cluster starts:
\* a break before every char but an Extend one, and always after a Control
GraphemeStarts(s) ==
    LET IsStart(i) == i = 1 \/ ~IsExtend(s[i]) \/ IsControl(s[i - 1])
    IN  SelectSeq([i \in 1..Len(s) |-> i], IsStart)

\* str::graphemes(true)
Graphemes(s) ==
    LET st == GraphemeStarts(s)
        n  == Len(st)
    IN  [k \in 1..n |-> SubSeq(s, st[k], IF k < n THEN st[k + 1] - 1 ELSE Len(s))]

\* the byte offsets of str::grapheme_indices(true)
GraphemeIndices(s) ==
    LET st == GraphemeStarts(s)
    IN  [k \in 1..Len(st) |-> ByteLen(SubSeq(s, 1, st[k] - 1))]

\* str::is_char_boundary
IsCharBoundary(s, idx) ==
    \E k \in 0..Len(s) : ByteLen(SubSeq(s, 1, k)) = idx

\* the number of chars before byte offset idx, a char boundary
CharsBefore(s, idx) ==
    CHOOSE k \in 0..Len(s) : ByteLen(SubSeq(s, 1, k)) = idx

----------------------------------------------------------------------------
(* Row *)

RECURSIVE TabLoop(_, _)
\* the loop of do_render on a tab: push a space and count it, until the
\* count is a multiple of TAB_STOP
TabLoop(render, index) ==
    LET r == Append(render, SPACE)
        i == index + 1
    IN  IF i % TAB_STOP = 0 THEN [render |-> r, index |-> i] ELSE TabLoop(r, i)

RECURSIVE RenderLoop(_, _, _, _, _)
\* the loop of do_render over the graphemes of raw
RenderLoop(gs, k, render, index, positions) ==
    IF k > Len(gs) THEN [render |-> render, positions |-> positions]
    ELSE IF gs[k] = <<TAB>>
         THEN LET t == TabLoop(render, index)
              IN  RenderLoop(gs, k + 1, t.render, t.index, Append(positions, TAB_STOP))
         ELSE RenderLoop(gs, k + 1, render \o gs[k], index + ByteLen(gs[k]),
                         Append(positions, 1))

\* Row::do_render, as the row it leaves for a given raw
do_render(raw) ==
    LET gs == Graphemes(raw)
        r  == RenderLoop(gs, 1, <<>>, 0, <<>>)
    IN  [raw       |-> raw,
         render    |-> r.render,
         indices   |-> IF Len(gs) = ByteLen(raw) THEN <<>> ELSE GraphemeIndices(raw),
         positions |-> r.positions]

\* Row::new
RowNew(line) == do_render(line)

\* Row::empty (Default: nothing rendered, all fields empty)
RowEmpty == [raw |-> <<>>, render |-> <<>>, indices |-> <<>>, positions |-> <<>>]

\* len as the byte count whatever indices holds
RowLenInBytes(r) == ByteLen(r.raw)

\* Row::len
RowLen(r) == IF r.indices = <<>> THEN ByteLen(r.raw) ELSE Len(r.indices)

\* Row::is_empty
RowIsEmpty(r) == RowLen(r) = 0

\* Row::byte_idx_of; ok is FALSE when the lookup indices[char] panics
byte_idx_of(r, char) ==
    LET len == Len(r.indices)
    IN  IF len = 0 THEN [ok |-> TRUE, idx |-> char]
        ELSE IF len = char THEN [ok |-> TRUE, idx |-> ByteLen(r.raw)]
        ELSE IF char < len THEN [ok |-> TRUE, idx |-> r.indices[char + 1]]
        ELSE [ok |-> FALSE, idx |-> 0]

\* visual_distance without the swap of from and to: a slice whose start
\* lies beyond its end panics
visual_distance_unswapped(r, from, to) ==
    LET RECURSIVE Sum(_)
        Sum(i) == IF i > to THEN 0 ELSE r.positions[i] + Sum(i + 1)
    IN  IF to < from \/ to > Len(r.positions) THEN [ok |-> FALSE, sum |-> 0]
        ELSE [ok |-> TRUE, sum |-> Sum(from + 1)]

\* Row::visual_distance; ok is FALSE when the slice positions[from..to] panics
visual_distance(r, from, to) ==
    LET lo == IF to < from THEN to ELSE from
        hi == IF to < from THEN from ELSE to
        RECURSIVE Sum(_)
        Sum(i) == IF i > hi THEN 0 ELSE r.positions[i] + Sum(i + 1)
    IN  IF hi > Len(r.positions) THEN [ok |-> FALSE, sum |-> 0]
        ELSE [ok |-> TRUE, sum |-> Sum(lo + 1)]

\* Row::insert_char; ok is FALSE when byte_idx_of or String::insert panics
RowInsertChar(r, at, c) ==
    IF at = RowLen(r)
    THEN [ok |-> TRUE, row |-> do_render(Append(r.raw, c))]
    ELSE LET b == byte_idx_of(r, at)
         IN  IF ~b.ok \/ ~IsCharBoundary(r.raw, b.idx)
             THEN [ok |-> FALSE, row |-> r]
             ELSE LET k == CharsBefore(r.raw, b.idx)
                  IN  [ok  |-> TRUE,
                       row |-> do_render(SubSeq(r.raw, 1, k) \o <<c>>
                                         \o SubSeq(r.raw, k + 1, Len(r.raw)))]

RECURSIVE Concat(_)
\* collect::<String>() of a sequence of graphemes
Concat(gs) == IF gs = <<>> THEN <<>> ELSE Head(gs) \o Concat(Tail(gs))

\* remove_char that compares the byte offsets with the grapheme index itself
RowRemoveCharByGraphemeIndex(r, at) ==
    LET gs  == Graphemes(r.raw)
        ix  == GraphemeIndices(r.raw)
        Keep(k) == ix[k] # at
        kept == SelectSeq([k \in 1..Len(gs) |-> k], Keep)
    IN  [ok  |-> TRUE,
         row |-> do_render(Concat([j \in 1..Len(kept) |-> gs[kept[j]]])),
         ret |-> "Ok"]

\* Row::remove_char; ok is FALSE when byte_idx_of panics inside the filter
\* (the filter runs once per grapheme, so not at all on an empty raw);
\* ret is the value returned
RowRemoveChar(r, at) ==
    LET gs  == Graphemes(r.raw)
        ix  == GraphemeIndices(r.raw)
        b   == byte_idx_of(r, at)
        Keep(k) == ix[k] # b.idx
        kept == SelectSeq([k \in 1..Len(gs) |-> k], Keep)
    IN  IF Len(gs) > 0 /\ ~b.ok
        THEN [ok |-> FALSE, row |-> r, ret |-> "panic"]
        ELSE [ok  |-> TRUE,
              row |-> do_render(Concat([j \in 1..Len(kept) |-> gs[kept[j]]])),
              ret |-> "Ok"]

----------------------------------------------------------------------------
(* Cursor and Buffer.  An operation is an operator from the buffer it is   *)
(* called on, b = [contents, offset, cursor, panicked, caret], to the      *)
(* buffer it leaves; a panic leaves what was written before it and sets    *)
(* panicked.  caret is the terminal caret the operation's cursor commands  *)
(* move, on a screen wider than any column reached.                        *)

Panic(b) == [b EXCEPT !.panicked = TRUE]

\* cursor::MoveTo(x, y)
CaretMoveTo(b, x, y) == [b EXCEPT !.caret = [column |-> x, row |-> y]]

\* cursor::MoveRight(distance)
CaretMoveRight(b, distance) == [b EXCEPT !.caret.column = @ + distance]

\* cursor::MoveLeft(distance): the caret stops at column 0
CaretMoveLeft(b, distance) ==
    [b EXCEPT !.caret.column = IF @ < distance THEN 0 ELSE @ - distance]

\* cursor::MoveDown(count)
CaretMoveDown(b, count) == [b EXCEPT !.caret.row = @ + count]

\* cursor::MoveUp(count): the caret stops at row 0
CaretMoveUp(b, count) ==
    [b EXCEPT !.caret.row = IF @ < count THEN 0 ELSE @ - count]

\* a usize comparison v >= w for w >= 0, where a negative v is a wrapped value
UGe(v, w) == v < 0 \/ v >= w

\* usize::saturating_sub(1)
SatSub1(v) == IF v = 0 THEN 0 ELSE v - 1

\* preserve_x restoring the remembered column only on a strictly longer line
preserve_x_strict(c, line_length) ==
    IF c.previous_x # None /\ c.previous_x < line_length
    THEN [c EXCEPT !.x = c.previous_x, !.previous_x = None]
    ELSE IF c.x < line_length
    THEN IF c.previous_x # None THEN [c EXCEPT !.x = line_length] ELSE c
    ELSE IF c.x > line_length
    THEN [c EXCEPT !.previous_x = IF c.previous_x = None THEN c.x ELSE c.previous_x,
                   !.x = line_length]
    ELSE c

\* Cursor::preserve_x
preserve_x(c, line_length) ==
    IF c.previous_x # None /\ c.previous_x <= line_length
    THEN [c EXCEPT !.x = c.previous_x, !.previous_x = None]
    ELSE IF c.x < line_length
    THEN IF c.previous_x # None THEN [c EXCEPT !.x = line_length] ELSE c
    ELSE IF c.x > line_length
    THEN [c EXCEPT !.previous_x = IF c.previous_x = None THEN c.x ELSE c.previous_x,
                   !.x = line_length]
    ELSE c

\* whether preserve_x queues MoveTo(x, y): it does in every branch that
\* assigns x
preserve_x_moves(c, line_length) ==
    IF c.previous_x # None /\ c.previous_x <= line_length THEN TRUE
    ELSE IF c.x < line_length THEN c.previous_x # None
    ELSE c.x > line_length

\* Buffer::new: one empty row for an empty file, else one row per line; the
\* caret is where main has put it, MoveTo(0, 0)
BufferNew(lines) ==
    [contents |-> IF lines = <<>> THEN <<RowEmpty>>
                  ELSE [i \in 1..Len(lines) |-> RowNew(lines[i])],
     offset   |-> 0,
     cursor   |-> [previous_x |-> None, x |-> 0, y |-> 0],
     panicked |-> FALSE,
     caret    |-> [column |-> 0, row |-> 0]]

\* the index cursor.y + offset (wrapping: a negative value is out of range)
LineIndex(b) == b.cursor.y + b.offset

\* contents.get(cursor.y + offset) is Some
HasLine(b) == LineIndex(b) >= 0 /\ LineIndex(b) < Len(b.contents)

\* Buffer::current_line, where HasLine
current_line(b) == b.contents[LineIndex(b) + 1]

\* draw_rows that forgets to skip the rows scrolled away
draw_rows_from_top(b, rows) ==
    [count \in 1..rows |-> IF count <= Len(b.contents) THEN b.contents[count].render
                           ELSE <<"~">>]

\* Buffer::draw_rows: the rows printed, top to bottom
draw_rows(b, rows) ==
    LET skipped == IF b.offset < 0 \/ b.offset >= Len(b.contents) THEN <<>>
                   ELSE SubSeq(b.contents, b.offset + 1, Len(b.contents))
    IN  [count \in 1..rows |-> IF count <= Len(skipped) THEN skipped[count].render
                               ELSE <<"~">>]

\* the tail of move_down and move_up: current_line().len().saturating_sub(1),
\* then preserve_x, with the MoveTo it queues
Relocated(b) ==
    IF ~HasLine(b) THEN Panic(b)
    ELSE LET line_length == SatSub1(RowLen(current_line(b)))
             c  == preserve_x(b.cursor, line_length)
             b1 == [b EXCEPT !.cursor = c]
         IN  IF preserve_x_moves(b.cursor, line_length)
             THEN CaretMoveTo(b1, c.x, c.y)
             ELSE b1

\* move_down that lets the row reach the line below the viewport
move_down_inclusive(b, count, screen_lines) ==
    IF UGe(LineIndex(b), SatSub1(Len(b.contents))) THEN b
    ELSE IF b.cursor.y + count <= screen_lines
    THEN Relocated(CaretMoveDown([b EXCEPT !.cursor.y = b.cursor.y + count], count))
    ELSE Relocated([b EXCEPT !.offset = b.offset + count])

\* Buffer::move_down
move_down(b, count, screen_lines) ==
    IF UGe(LineIndex(b), SatSub1(Len(b.contents))) THEN b
    ELSE IF b.cursor.y + count < screen_lines
    THEN Relocated(CaretMoveDown([b EXCEPT !.cursor.y = b.cursor.y + count], count))
    ELSE Relocated([b EXCEPT !.offset = b.offset + count])

\* Buffer::move_up; checks is TRUE in a build that panics on overflow
move_up(b, count, checks) ==
    IF b.cursor.y = 0 /\ b.offset = 0 THEN b
    ELSE IF b.cursor.y - count >= 0
    THEN Relocated(CaretMoveUp([b EXCEPT !.cursor.y = b.cursor.y - count], count))
    ELSE IF checks /\ b.offset >= 0 /\ b.offset < count
    THEN Panic(b)
    ELSE Relocated([b EXCEPT !.offset = b.offset - count])

\* move_right that clamps to the line length instead of the last index
move_right_past_end(b, count) ==
    IF ~HasLine(b) THEN Panic(b)
    ELSE LET line        == current_line(b)
             line_length == RowLen(line)
             final       == IF b.cursor.x + count > line_length THEN line_length
                            ELSE b.cursor.x + count
             cleared     == [b EXCEPT !.cursor.previous_x = None]
         IN  IF b.cursor.x >= line_length \/ line_length = 0 THEN b
             ELSE LET distance == visual_distance(line, b.cursor.x, final)
                  IN  IF ~distance.ok THEN Panic(cleared)
                      ELSE [CaretMoveRight(cleared, distance.sum)
                                EXCEPT !.cursor.x = final]

\* Buffer::move_right
move_right(b, count) ==
    IF ~HasLine(b) THEN Panic(b)
    ELSE LET line        == current_line(b)
             line_length == SatSub1(RowLen(line))
             final       == IF b.cursor.x + count > line_length THEN line_length
                            ELSE b.cursor.x + count
             cleared     == [b EXCEPT !.cursor.previous_x = None]
         IN  IF b.cursor.x >= line_length \/ line_length = 0 THEN b
             ELSE LET distance == visual_distance(line, b.cursor.x, final)
                  IN  IF ~distance.ok THEN Panic(cleared)
                      ELSE [CaretMoveRight(cleared, distance.sum)
                                EXCEPT !.cursor.x = final]

\* move_right_forced without the return on an empty line
move_right_forced_on_empty(b, count) ==
    IF ~HasLine(b) THEN Panic(b)
    ELSE [CaretMoveRight(b, count) EXCEPT !.cursor.x = b.cursor.x + count]

\* Buffer::move_right_forced
move_right_forced(b, count) ==
    IF ~HasLine(b) THEN Panic(b)
    ELSE IF RowIsEmpty(current_line(b)) THEN b
    ELSE [CaretMoveRight(b, count) EXCEPT !.cursor.x = b.cursor.x + count]

\* Buffer::move_left
move_left(b, count) ==
    IF b.cursor.x = 0 THEN b
    ELSE LET cleared == [b EXCEPT !.cursor.previous_x = None]
             final   == IF b.cursor.x - count < 0 THEN 0 ELSE b.cursor.x - count
         IN  IF ~HasLine(b) THEN Panic(cleared)
             ELSE LET distance == visual_distance(current_line(b), final, b.cursor.x)
                  IN  IF ~distance.ok THEN Panic(cleared)
                      ELSE [CaretMoveLeft(cleared, distance.sum)
                                EXCEPT !.cursor.x = final]

\* Buffer::move_end_of_line
move_end_of_line(b) ==
    IF ~HasLine(b) THEN Panic(b) ELSE move_right(b, RowLen(current_line(b)))

\* Buffer::move_start_of_line
move_start_of_line(b) ==
    IF ~HasLine(b) THEN Panic(b) ELSE move_left(b, RowLen(current_line(b)))

\* raw.chars().position(|x| !x.is_whitespace()).unwrap_or(0)
FirstCharPosition(raw) ==
    LET found == {i \in 1..Len(raw) : ~IsWhitespace(raw[i])}
    IN  IF found = {} THEN 0
        ELSE (CHOOSE i \in found : \A j \in found : i <= j) - 1

\* Buffer::move_to_first_char
move_to_first_char(b) ==
    IF ~HasLine(b) THEN Panic(b)
    ELSE LET x == FirstCharPosition(current_line(b).raw)
         IN  CaretMoveTo([b EXCEPT !.cursor.x = x], x, b.cursor.y)

\* insert_char that appends to the line wherever the cursor is
insert_char_appending(b, character) ==
    IF ~HasLine(b) THEN Panic(b)
    ELSE LET line == current_line(b)
             res  == RowInsertChar(line, RowLen(line), character)
         IN  IF ~res.ok THEN Panic(b)
             ELSE move_right_forced(
                      [b EXCEPT !.contents[LineIndex(b) + 1] = res.row], 1)

\* Buffer::insert_char
insert_char(b, character) ==
    IF ~HasLine(b) THEN Panic(b)
    ELSE LET res == RowInsertChar(current_line(b), b.cursor.x, character)
         IN  IF ~res.ok THEN Panic(b)
             ELSE move_right_forced(
                      [b EXCEPT !.contents[LineIndex(b) + 1] = res.row], 1)

\* remove_char without the early return on an empty line, indexing the row
remove_char_unguarded(b) ==
    IF ~HasLine(b) THEN Panic(b)
    ELSE IF RowIsEmpty(current_line(b)) THEN Panic(b)
    ELSE LET res == RowRemoveChar(current_line(b), b.cursor.x)
             b1  == [b EXCEPT !.contents[LineIndex(b) + 1] = res.row]
         IN  IF ~res.ok THEN Panic(b)
             ELSE IF b.cursor.x >= RowLen(res.row) THEN move_left(b1, 1)
             ELSE b1

\* remove_char that leaves the column where it is
remove_char_staying(b) ==
    IF ~HasLine(b) THEN Panic(b)
    ELSE IF RowIsEmpty(current_line(b)) THEN b
    ELSE LET res == RowRemoveChar(current_line(b), b.cursor.x)
             b1  == [b EXCEPT !.contents[LineIndex(b) + 1] = res.row]
         IN  IF ~res.ok THEN Panic(b) ELSE b1

\* Buffer::remove_char
remove_char(b) ==
    IF ~HasLine(b) THEN Panic(b)
    ELSE IF RowIsEmpty(current_line(b)) THEN b
    ELSE LET res == RowRemoveChar(current_line(b), b.cursor.x)
             b1  == [b EXCEPT !.contents[LineIndex(b) + 1] = res.row]
         IN  IF ~res.ok THEN Panic(b)
             ELSE IF b.cursor.x >= RowLen(res.row) THEN move_left(b1, 1)
             ELSE b1

\* Buffer::remove_char_before_cursor
remove_char_before_cursor(b) ==
    IF b.cursor.x = 0 THEN b
    ELSE LET b1 == move_left(b, 1)
         IN  IF b1.panicked THEN b1
             ELSE IF ~HasLine(b1) THEN Panic(b1)
             ELSE LET res == RowRemoveChar(current_line(b1), b1.cursor.x)
                  IN  IF ~res.ok THEN Panic(b1)
                      ELSE [b1 EXCEPT !.contents[LineIndex(b1) + 1] = res.row]

\* Vec::insert(index, element), for 0 <= index <= len
VecInsert(v, index, e) ==
    SubSeq(v, 1, index) \o <<e>> \o SubSeq(v, index + 1, Len(v))

\* Buffer::new_line_after_cursor; rows is the terminal height minus one
new_line_after_cursor(b, rows) ==
    LET at == LineIndex(b) + 1
    IN  IF at < 0 \/ at > Len(b.contents) THEN Panic(b)
        ELSE move_down([b EXCEPT !.contents = VecInsert(b.contents, at, RowEmpty)],
                       1, rows)

\* new_line_before_cursor that puts the new line below the current one
new_line_before_cursor_below(b) ==
    LET b1 == move_start_of_line(b)
        at == LineIndex(b1) + 1
    IN  IF b1.panicked THEN b1
        ELSE IF at < 0 \/ at > Len(b1.contents) THEN Panic(b1)
        ELSE [b1 EXCEPT !.contents = VecInsert(b1.contents, at, RowEmpty)]

\* Buffer::new_line_before_cursor
new_line_before_cursor(b) ==
    LET b1 == move_start_of_line(b)
        at == LineIndex(b1)
    IN  IF b1.panicked THEN b1
        ELSE IF at < 0 \/ at > Len(b1.contents) THEN Panic(b1)
        ELSE [b1 EXCEPT !.contents = VecInsert(b1.contents, at, RowEmpty)]

----------------------------------------------------------------------------
(* Pure Row operations as a state machine: SpecRow *)

RECURSIVE StringsUpTo(_)
\* all strings of at most n chars
StringsUpTo(n) ==
    IF n = 0 THEN {<<>>}
    ELSE LET S == StringsUpTo(n - 1)
         IN  S \cup {Append(s, c) : s \in {t \in S : Len(t) = n - 1}, c \in Chars}

BufferIdle ==
    /\ contents = <<RowEmpty>>
    /\ offset = 0
    /\ cursor = [previous_x |-> None, x |-> 0, y |-> 0]
    /\ panicked = FALSE
    /\ screen_rows = 1
    /\ build = "any"
    /\ screen = <<>>
    /\ last = [op |-> "new", n |-> 0, contents |-> <<RowEmpty>>, offset |-> 0,
               cursor |-> [previous_x |-> None, x |-> 0, y |-> 0], ret |-> "Ok"]
    /\ anchor = 0
    /\ caret = [column |-> 0, row |-> 0]

\* Row::new on any line of at most MaxRowChars chars
InitRow ==
    /\ BufferIdle
    /\ \E s \in StringsUpTo(MaxRowChars) : row = RowNew(s)
    /\ row_last = [op |-> "new", at |-> 0, c |-> LETTER, raw |-> row.raw,
                   follows |-> FALSE, grew |-> FALSE, ok |-> TRUE, ret |-> "Ok"]

\* row.insert_char(at, c) at any valid index
DoRowInsertChar ==
    /\ row_last.ok
    /\ Len(row.raw) <= MaxRowChars
    /\ \E at \in 0..RowLen(row), c \in Chars :
          LET res == RowInsertChar(row, at, c)
          IN  /\ row' = res.row
              /\ row_last' = [op |-> "insert_char", at |-> at, c |-> c,
                              raw |-> row.raw, follows |-> FALSE,
                              grew |-> RowLen(res.row) = RowLen(row) + 1,
                              ok |-> res.ok, ret |-> "Ok"]
    /\ UNCHANGED bufvars

\* row.remove_char(at) at any index up to the length; when it immediately
\* follows insert_char(at, c) at the same index, row_last keeps the raw, the
\* char and the growth that the insertion recorded
DoRowRemoveChar ==
    /\ row_last.ok
    /\ \E at \in 0..RowLen(row) :
          LET res == RowRemoveChar(row, at)
              follows == row_last.op = "insert_char" /\ row_last.at = at
          IN  /\ row' = res.row
              /\ row_last' = [op |-> "remove_char", at |-> at, c |-> row_last.c,
                              raw |-> IF follows THEN row_last.raw ELSE row.raw,
                              follows |-> follows,
                              grew |-> follows /\ row_last.grew,
                              ok |-> res.ok, ret |-> res.ret]
    /\ UNCHANGED bufvars

\* row.visual_distance(from, to) at any two indices up to the length;
\* row_last records the indices and the sum returned
DoRowVisualDistance ==
    /\ row_last.ok
    /\ \E from \in 0..RowLen(row), to \in 0..RowLen(row) :
          LET res == visual_distance(row, from, to)
          IN  /\ row' = row
              /\ row_last' = [op |-> "visual_distance", at |-> from, to |-> to,
                              sum |-> res.sum, c |-> row_last.c, raw |-> row.raw,
                              follows |-> FALSE, grew |-> FALSE,
                              ok |-> res.ok, ret |-> "Ok"]
    /\ UNCHANGED bufvars

NextRow == DoRowInsertChar \/ DoRowRemoveChar \/ DoRowVisualDistance

SpecRow == InitRow /\ [][NextRow]_vars

----------------------------------------------------------------------------
(* The Buffer as a state machine: Spec.  Each action is one call of a      *)
(* public Buffer operation, as the editor's key dispatch makes them.       *)

\* the buffer the next operation is called on
B == [contents |-> contents, offset |-> offset, cursor |-> cursor,
      panicked |-> panicked, caret |-> caret]

\* the files the buffer is opened on: an empty file, and three lines of
\* lengths 3, 1, 3
InitDocs ==
    { <<>>,
      << <<LETTER, LETTER, LETTER>>, <<LETTER>>, <<LETTER, LETTER, LETTER>> >> }

RECURSIVE DocChars(_)
\* the number of chars in a document
DocChars(rows) ==
    IF rows = <<>> THEN 0 ELSE Len(Head(rows).raw) + DocChars(Tail(rows))

RowIdle ==
    /\ row = RowEmpty
    /\ row_last = [op |-> "new", at |-> 0, c |-> LETTER, raw |-> <<>>,
                   follows |-> FALSE, grew |-> FALSE, ok |-> TRUE, ret |-> "Ok"]

\* Buffer::new on a file, in a terminal of screen_rows + 1 rows
Init ==
    /\ \E doc \in InitDocs :
          LET b == BufferNew(doc)
          IN  /\ contents = b.contents
              /\ offset = b.offset
              /\ cursor = b.cursor
              /\ panicked = b.panicked
              /\ caret = b.caret
              /\ last = [op |-> "new", n |-> 0, contents |-> b.contents,
                         offset |-> b.offset, cursor |-> b.cursor, ret |-> "Ok"]
    /\ screen_rows \in 1..MaxScreenRows
    /\ build = "any"
    /\ screen = <<>>
    /\ anchor = 0
    /\ RowIdle

\* the state after operation op with argument n has turned B into b; a
\* vertical move leaves anchor alone, any other operation sets it to the
\* column it leaves when no column is remembered; an offset that has
\* wrapped below zero shows a build without overflow checks
Becomes(op, n, b, vertical) ==
    /\ ~panicked
    /\ contents' = b.contents
    /\ offset' = b.offset
    /\ cursor' = b.cursor
    /\ panicked' = b.panicked
    /\ caret' = b.caret
    /\ last' = [op |-> op, n |-> n, contents |-> contents, offset |-> offset,
                cursor |-> cursor, ret |-> IF b.panicked THEN "panic" ELSE "Ok"]
    /\ screen' = <<>>
    /\ anchor' = IF vertical THEN anchor
                 ELSE IF b.cursor.previous_x = None THEN b.cursor.x ELSE None
    /\ build' = IF b.offset < 0 THEN "release" ELSE build
    /\ UNCHANGED <<screen_rows, row, row_last>>

\* whether the build panics on integer overflow: a debug build does, a
\* release build does not, and a run in which an overflow has wrapped is
\* one of a release build
OverflowChecks == IF build = "release" THEN {FALSE} ELSE BOOLEAN

Counts == 0..MaxCount

MoveDown == \E n \in Counts : Becomes("move_down", n, move_down(B, n, screen_rows), TRUE)

MoveUp ==
    \E n \in Counts, checks \in OverflowChecks :
        Becomes("move_up", n, move_up(B, n, checks), TRUE)

MoveRight == \E n \in Counts : Becomes("move_right", n, move_right(B, n), FALSE)

MoveRightForced ==
    \E n \in Counts :
        /\ cursor.x + n <= MaxColumn
        /\ Becomes("move_right_forced", n, move_right_forced(B, n), FALSE)

MoveLeft == \E n \in Counts : Becomes("move_left", n, move_left(B, n), FALSE)

MoveEndOfLine == Becomes("move_end_of_line", 0, move_end_of_line(B), FALSE)

MoveStartOfLine == Becomes("move_start_of_line", 0, move_start_of_line(B), FALSE)

MoveToFirstChar == Becomes("move_to_first_char", 0, move_to_first_char(B), FALSE)

InsertChar ==
    /\ DocChars(contents) < MaxDocChars
    /\ \E c \in TypedChars :
          Becomes("insert_char", CharCode(c), insert_char(B, c), FALSE)

RemoveChar == Becomes("remove_char", 0, remove_char(B), FALSE)

RemoveCharBeforeCursor ==
    Becomes("remove_char_before_cursor", 0, remove_char_before_cursor(B), FALSE)

NewLineAfterCursor ==
    /\ Len(contents) < MaxRows
    /\ Becomes("new_line_after_cursor", 0, new_line_after_cursor(B, screen_rows), FALSE)

NewLineBeforeCursor ==
    /\ Len(contents) < MaxRows
    /\ Becomes("new_line_before_cursor", 0, new_line_before_cursor(B), FALSE)

\* Buffer::draw_rows with the terminal's height: prints, changes nothing
\* (it saves the caret position before printing and restores it after)
DrawRows ==
    /\ ~panicked
    /\ screen' = draw_rows(B, screen_rows)
    /\ last' = [op |-> "draw_rows", n |-> screen_rows, contents |-> contents,
                offset |-> offset, cursor |-> cursor, ret |-> "Ok"]
    /\ UNCHANGED <<contents, offset, cursor, panicked, screen_rows, build,
                   anchor, caret, row, row_last>>

Next ==
    \/ MoveDown
    \/ MoveUp
    \/ MoveRight
    \/ MoveRightForced
    \/ MoveLeft
    \/ MoveEndOfLine
    \/ MoveStartOfLine
    \/ MoveToFirstChar
    \/ InsertChar
    \/ RemoveChar
    \/ RemoveCharBeforeCursor
    \/ NewLineAfterCursor
    \/ NewLineBeforeCursor
    \/ DrawRows

Spec == Init /\ [][Next]_vars

----------------------------------------------------------------------------
(* The Buffer opened on an empty file, with more text typed: SpecEdit.     *)
(* Every line it edits has been typed char by char.                        *)

\* Buffer::new on an empty file, in a terminal of MaxScreenRows + 1 rows
InitEdit == Init /\ contents = <<RowEmpty>> /\ screen_rows = MaxScreenRows

\* a char typed in insert mode, while the document holds fewer than
\* MaxEditChars chars
TypeChar ==
    /\ DocChars(contents) < MaxEditChars
    /\ \E c \in TypedChars :
          Becomes("insert_char", CharCode(c), insert_char(B, c), FALSE)

NextEdit ==
    \/ MoveDown
    \/ MoveUp
    \/ MoveRight
    \/ MoveRightForced
    \/ MoveLeft
    \/ MoveEndOfLine
    \/ MoveStartOfLine
    \/ MoveToFirstChar
    \/ TypeChar
    \/ RemoveChar
    \/ RemoveCharBeforeCursor
    \/ NewLineAfterCursor
    \/ NewLineBeforeCursor
    \/ DrawRows

SpecEdit == InitEdit /\ [][NextEdit]_vars

----------------------------------------------------------------------------
(* Claims about the Buffer, checked under Spec *)

Min(a, b) == IF a < b THEN a ELSE b

Max(a, b) == IF a < b THEN b ELSE a

\* the buffer the last operation was called on
Pre == [contents |-> last.contents, offset |-> last.offset, cursor |-> last.cursor,
        panicked |-> FALSE]

\* the length of the line the last operation was called on
PreLen == RowLen(current_line(Pre))

\* the last operation left the lines, the scroll offset and the row alone
TextAndRowUnchanged ==
    contents = last.contents /\ offset = last.offset /\ cursor.y = last.cursor.y

\* the last operation left the whole buffer alone
BufferUnchanged ==
    contents = last.contents /\ offset = last.offset /\ cursor = last.cursor

\* C1: in every reachable state the line sequence is non-empty and
\* viewport_offset + cursor.row is the index of an existing line, for
\* movements with any counts n >= 1.
C1_LineIndexValid ==
    /\ Len(contents) >= 1
    /\ offset >= 0
    /\ offset + cursor.y < Len(contents)

\* C2: in every reachable state the cursor column is at most the length of
\* the current line, also after insert_char of a combining mark and after
\* move_right_forced(n).
C2_ColumnWithinLine ==
    (~panicked /\ HasLine(B)) => cursor.x <= RowLen(current_line(B))

\* a run of vertical moves that started at column anchor with nothing
\* remembered has just moved the cursor to another line
VerticalMoveRelocated ==
    /\ last.op \in {"move_up", "move_down"}
    /\ ~panicked
    /\ anchor # None
    /\ <<cursor.y, offset>> # <<last.cursor.y, last.offset>>

\* C3: sticky column.  After each relocating move of a run of
\* move_up/move_down calls that started at column c with no remembered
\* column, the column is min(c, last valid index of the line the cursor is
\* on); c is remembered exactly while the line is too short for it.
C3_StickyColumn ==
    VerticalMoveRelocated =>
        LET last_index == SatSub1(RowLen(current_line(B)))
        IN  /\ cursor.x = Min(anchor, last_index)
            /\ cursor.previous_x = IF anchor <= last_index THEN None ELSE anchor

\* lines of lengths 3, 1, 3, column 2 on the first: down clamps to column 0
\* remembering 2, down again has just restored column 2 and forgotten it
C3_Witness ==
    /\ VerticalMoveRelocated
    /\ [i \in 1..Len(contents) |-> RowLen(contents[i])] = <<3, 1, 3>>
    /\ last.op = "move_down"
    /\ last.cursor = [previous_x |-> 2, x |-> 0, y |-> 1]
    /\ LineIndex(B) = 2
    /\ anchor = 2
    /\ cursor.x = 2
    /\ cursor.previous_x = None

\* C4: whenever a column is remembered it is at least the live column.
C4_RememberedAtLeastColumn ==
    (~panicked /\ cursor.previous_x # None) => cursor.previous_x >= cursor.x

\* C5: every call of move_left(n) or move_right(n) that returns leaves no
\* remembered column, the calls that do not move the cursor (move_left at
\* column 0, move_right at or past the last column or on a line of at most
\* one character) included, and those leave the column unchanged.
C5_HorizontalClearsRemembered ==
    /\ (last.op \in {"move_left", "move_right"} /\ ~panicked) =>
           cursor.previous_x = None
    /\ (last.op = "move_left" /\ last.cursor.x = 0) => cursor.x = 0
    /\ (last.op = "move_right" /\ last.cursor.x >= SatSub1(PreLen)) =>
           cursor.x = last.cursor.x

\* C6: with the terminal height h = screen_rows >= 1 passed to every
\* move_down, every reachable state has 0 <= cursor.row < h.
C6_RowInsideViewport ==
    0 <= cursor.y /\ cursor.y < screen_rows

\* a move_down from the bottom row of a two-row viewport has scrolled
\* instead of moving the row
C6_Witness ==
    /\ last.op = "move_down"
    /\ last.n = 1
    /\ screen_rows = 2
    /\ last.cursor.y = 1
    /\ cursor.y = 1
    /\ offset = last.offset + 1
    /\ ~panicked

\* C7: move_right(n) from column x <= len - 1 on a line of length len >= 1
\* ends at column min(x + n, len - 1); move_left(n) from a column x on the
\* line (x <= len) ends at max(x - n, 0); on an empty line both leave the
\* column at 0; neither changes the row, the scroll offset or any text.
C7_HorizontalMove ==
    /\ (last.op = "move_right" /\ PreLen >= 1 /\ last.cursor.x <= PreLen - 1) =>
           /\ ~panicked
           /\ cursor.x = Min(last.cursor.x + last.n, PreLen - 1)
           /\ TextAndRowUnchanged
    /\ (last.op = "move_left" /\ PreLen >= 1 /\ last.cursor.x <= PreLen) =>
           /\ ~panicked
           /\ cursor.x = Max(last.cursor.x - last.n, 0)
           /\ TextAndRowUnchanged
    /\ (last.op \in {"move_right", "move_left"} /\ PreLen = 0) =>
           /\ ~panicked
           /\ cursor.x = 0
           /\ TextAndRowUnchanged

\* move_right(2) from column 1 of a line of length 3 has stopped at the
\* last column, 2
C7_Witness ==
    /\ last.op = "move_right"
    /\ last.n = 2
    /\ PreLen = 3
    /\ last.cursor.x = 1
    /\ cursor.x = 2

\* C8: draw_rows(h) prints exactly h rows, row i being the render of line
\* offset + i where there is one and the filler "~" otherwise, and leaves
\* the lines, the scroll offset and the cursor unchanged.
C8_DrawRows ==
    last.op = "draw_rows" =>
        /\ Len(screen) = last.n
        /\ \A i \in 0..(last.n - 1) :
              screen[i + 1] = IF offset >= 0 /\ offset + i < Len(contents)
                              THEN contents[offset + i + 1].render
                              ELSE <<"~">>
        /\ BufferUnchanged
        /\ ~panicked

\* a scrolled two-row viewport on the last line of the document: one real
\* line, then one filler
C8_Witness ==
    /\ last.op = "draw_rows"
    /\ last.n = 2
    /\ offset = Len(contents) - 1
    /\ offset > 0
    /\ screen = <<contents[offset + 1].render, <<"~">> >>
    /\ contents[offset + 1].render # <<>>

\* remove_char has just been called on an empty current line
RemoveCharOnEmptyLine ==
    last.op = "remove_char" /\ PreLen = 0

\* C10 (as stated): remove_char on an empty current line returns the
\* EmptyLine error signal rather than a success value.
C10_EmptyLineSignalled ==
    RemoveCharOnEmptyLine => last.ret = "EmptyLine"

\* C10 (amended): remove_char on an empty current line returns Ok(()) and
\* leaves the buffer as it was, and Row::remove_char on that empty row
\* returns Ok(()) as well, leaving the row empty.
C10_EmptyLineIsOk ==
    RemoveCharOnEmptyLine =>
        /\ last.ret = "Ok"
        /\ ~panicked
        /\ BufferUnchanged
        /\ RowRemoveChar(current_line(B), cursor.x).ret = "Ok"
        /\ RowRemoveChar(current_line(B), cursor.x).row = RowEmpty

\* remove_char on the empty second line of a two-line document
C10_Witness ==
    /\ RemoveCharOnEmptyLine
    /\ Len(contents) = 2
    /\ LineIndex(B) = 1
    /\ contents[1].raw # <<>>
    /\ last.ret = "Ok"

\* the operations that work inside the current line
LineOps ==
    {"move_left", "move_right", "move_right_forced", "move_start_of_line",
     "move_end_of_line", "move_to_first_char", "remove_char",
     "remove_char_before_cursor"}

\* C11: when the current line is empty, move_left, move_right,
\* move_right_forced, move_start_of_line, move_end_of_line,
\* move_to_first_char, remove_char and remove_char_before_cursor complete
\* without a panic and leave the lines, the scroll offset, the row and the
\* column unchanged; on a document of one empty line move_up(n) and
\* move_down(n, h) do so as well, for every n.
C11_EmptyLineNoOp ==
    /\ (last.op \in LineOps /\ PreLen = 0) =>
           /\ ~panicked
           /\ TextAndRowUnchanged
           /\ cursor.x = last.cursor.x
    /\ (last.op \in {"move_up", "move_down"} /\ last.contents = <<RowEmpty>>) =>
           /\ ~panicked
           /\ TextAndRowUnchanged
           /\ cursor.x = last.cursor.x

\* move_right_forced(2) has just been called on the empty second line of a
\* two-line document and has left the column at 0
C11_Witness ==
    /\ last.op = "move_right_forced"
    /\ last.n = 2
    /\ PreLen = 0
    /\ Len(last.contents) = 2
    /\ last.offset + last.cursor.y = 1
    /\ last.contents[1].raw # <<>>
    /\ cursor.x = 0
    /\ ~panicked

\* C16: move_up(n) saturates: for every n >= 1 it completes without a panic
\* and leaves cursor.row and the scroll offset at 0 or above, also when n
\* exceeds the absolute line index (row 0, offset 1, n = 2).
C16_MoveUpSaturates ==
    (last.op = "move_up" /\ last.n >= 1) =>
        /\ ~panicked
        /\ cursor.y >= 0
        /\ offset >= 0

\* C17: a move_down(n, h) not at the last line adds exactly n to the
\* absolute line index offset + row, a move_up(n) not at row 0, offset 0
\* subtracts exactly n; each changes exactly one of row and offset: the row
\* when the new row stays in the viewport (row + n < h, resp. row - n >= 0)
\* and the offset otherwise; at the last line, resp. at the start of the
\* document, the call changes nothing.
C17_VerticalMoveByCount ==
    LET k == last.offset + last.cursor.y
        n == last.n
        at_last_line == k >= Max(Len(last.contents) - 1, 0)
        at_start == last.cursor.y = 0 /\ last.offset = 0
        one_changed == (cursor.y # last.cursor.y) # (offset # last.offset)
    IN  (last.offset >= 0 /\ n >= 1) =>
           /\ (last.op = "move_down" /\ ~at_last_line) =>
                  /\ offset + cursor.y = k + n
                  /\ one_changed
                  /\ (cursor.y # last.cursor.y) <=> (last.cursor.y + n < screen_rows)
           /\ (last.op = "move_up" /\ ~at_start) =>
                  /\ offset >= 0
                  /\ offset + cursor.y = k - n
                  /\ one_changed
                  /\ (cursor.y # last.cursor.y) <=> (last.cursor.y - n >= 0)
           /\ (last.op = "move_down" /\ at_last_line) => BufferUnchanged
           /\ (last.op = "move_up" /\ at_start) => BufferUnchanged

\* the lines are those before the last operation with one new empty line
\* at index at (from 0)
OneEmptyLineAddedAt(at) ==
    /\ Len(contents) = Len(last.contents) + 1
    /\ contents[at + 1].raw = <<>>
    /\ RowLen(contents[at + 1]) = 0
    /\ \A i \in 1..Len(last.contents) :
          contents[IF i <= at THEN i ELSE i + 1] = last.contents[i]

CursorOnLine ==
    ~panicked /\ HasLine(B) /\ cursor.x <= RowLen(current_line(B))

\* C21: after any sequence of operations the column of the terminal caret,
\* as the cursor commands of the operations have moved it, is
\* visual_distance(0, cursor.x) of the current line, the visual column of
\* the cursor, also on lines that hold tabs and after sticky-column jumps,
\* insert_char and move_to_first_char.
C21_CaretAtVisualColumn ==
    CursorOnLine =>
        caret.column = visual_distance(current_line(B), 0, cursor.x).sum

----------------------------------------------------------------------------
(* Claims about editing, checked under SpecEdit *)

\* the graphemes of the line the last operation was called on
PreGraphemes == Graphemes(current_line(Pre).raw)

\* the graphemes of that line now
NowGraphemes == Graphemes(contents[LineIndex(Pre) + 1].raw)

\* the last operation left every line but the one it was called on alone
OtherLinesUnchanged ==
    /\ Len(contents) = Len(last.contents)
    /\ \A i \in 1..Len(contents) :
          i # LineIndex(Pre) + 1 => contents[i] = last.contents[i]

\* the char the last insert_char was given
TypedChar == CHOOSE c \in TypedChars : CharCode(c) = last.n

\* insert_char has just been called with the column on the line
InsertedOnLine == last.op = "insert_char" /\ last.cursor.x <= PreLen

\* the graphemes before x, the char typed, the graphemes from x on; the
\* length and the column one more; nothing else changed
InsertedAsGrapheme ==
    LET x == last.cursor.x
    IN  /\ ~panicked
        /\ NowGraphemes = SubSeq(PreGraphemes, 1, x) \o << <<TypedChar>> >>
                              \o SubSeq(PreGraphemes, x + 1, Len(PreGraphemes))
        /\ RowLen(current_line(B)) = PreLen + 1
        /\ cursor.x = x + 1
        /\ cursor.y = last.cursor.y
        /\ offset = last.offset
        /\ OtherLinesUnchanged

StandsAlone ==
    LET x == last.cursor.x
        c == TypedChar
        before == PreGraphemes[x]
    IN  /\ ~IsExtend(c) \/ x = 0 \/ IsControl(before[Len(before)])
        /\ x = Len(PreGraphemes) \/ ~IsExtend(PreGraphemes[x + 1][1]) \/ IsControl(c)

TextWithout(gs, i) ==
    Concat(SubSeq(gs, 1, i) \o SubSeq(gs, i + 2, Len(gs)))

----------------------------------------------------------------------------
(* Claims about Row, checked under SpecRow *)

\* remove_char(i) has just run right after insert_char(i, c)
RoundTripDone ==
    row_last.op = "remove_char" /\ row_last.follows /\ row_last.ok

\* C9 (as stated): insert_char(i, c) immediately followed by remove_char(i)
\* leaves raw equal to its value before the insertion, for every line,
\* every index 0 <= i <= len and every char c, combining marks included.
C9_RoundTripAnyChar ==
    RoundTripDone => row.raw = row_last.raw

\* C9 (amended): the round trip restores raw whenever the insertion made the
\* row one grapheme longer, that is, whenever the inserted char came to
\* stand as a grapheme of its own at index i.
C9_RoundTripOwnGrapheme ==
    (RoundTripDone /\ row_last.grew) => row.raw = row_last.raw

\* a round trip of a two-byte char inserted in the middle of a row that
\* holds a combining mark and a tab
C9_Witness ==
    /\ RoundTripDone
    /\ row_last.grew
    /\ row_last.c = WIDE
    /\ row_last.at = 1
    /\ row_last.raw = <<LETTER, MARK, TAB>>
    /\ row.raw = <<LETTER, MARK, TAB>>

\* the byte offset in raw of each grapheme of raw, from the graphemes
\* before it
ByteOffsets(raw) ==
    LET gs == Graphemes(raw)
    IN  [k \in 1..Len(gs) |-> ByteLen(Concat(SubSeq(gs, 1, k - 1)))]

\* C12: after Row::new and after every insert_char / remove_char, len() is
\* the number of grapheme clusters of raw, positions has one entry per
\* grapheme, and indices is empty exactly when every grapheme is one byte
\* and otherwise holds, per grapheme, its byte offset in raw.
C12_RowStructure ==
    LET gs == Graphemes(row.raw)
        all_one_byte == \A k \in 1..Len(gs) : ByteLen(gs[k]) = 1
    IN  /\ RowLen(row) = Len(gs)
        /\ Len(row.positions) = Len(gs)
        /\ (row.indices = <<>>) <=> all_one_byte
        /\ ~all_one_byte => row.indices = ByteOffsets(row.raw)

\* insert_char has just put a two-byte char between a letter with a
\* combining mark and a tab: 3 graphemes in 6 bytes, at offsets 0, 3, 5
C12_Witness ==
    /\ row_last.op = "insert_char"
    /\ row_last.ok
    /\ row.raw = <<LETTER, MARK, WIDE, TAB>>
    /\ RowLen(row) = 3
    /\ ByteLen(row.raw) = 6
    /\ row.indices = <<0, 3, 5>>

\* n spaces
Spaces(n) == [i \in 1..n |-> SPACE]

RECURSIVE ExpandTabs(_, _, _, _)
\* raw with every tab replaced by the spaces that reach the next multiple
\* of TAB_STOP, col being the number of columns rendered so far: one per
\* grapheme that is not a tab, one per space of a tab
ExpandTabs(gs, k, out, col) ==
    IF k > Len(gs) THEN out
    ELSE IF gs[k] = <<TAB>>
         THEN LET width == TAB_STOP - (col % TAB_STOP)
              IN  ExpandTabs(gs, k + 1, out \o Spaces(width), col + width)
         ELSE ExpandTabs(gs, k + 1, out \o gs[k], col + 1)

\* C13: render is raw with each tab replaced by spaces up to the next
\* multiple of TAB_STOP counted in rendered columns (a tab preceded by c
\* rendered columns becomes TAB_STOP - (c mod TAB_STOP) spaces), also when
\* the preceding characters are multi-byte.
C13_TabExpansion ==
    row.render = ExpandTabs(Graphemes(row.raw), 1, <<>>, 0)

\* C14: positions[i] is the number of rendered columns grapheme i occupies
\* in render, 1 for an ordinary character and the number of spaces emitted
\* for a tab, so that visual_distance(0, len()) is the column count of
\* render on every line of single-column characters and tabs.
C14_WidthsAgreeWithRender ==
    LET gs == Graphemes(row.raw)
        Rendered(k) == do_render(Concat(SubSeq(gs, 1, k))).render
        Columns(k) == IF gs[k] = <<TAB>>
                      THEN Len(Rendered(k)) - Len(Rendered(k - 1))
                      ELSE 1
        single_column == \A i \in 1..Len(row.raw) : ~IsExtend(row.raw[i])
    IN  /\ \A k \in 1..Len(gs) : row.positions[k] = Columns(k)
        /\ single_column =>
               visual_distance(row, 0, RowLen(row)).sum = Len(row.render)

RECURSIVE SumWidths(_, _, _)
\* the sum of the widths at the indices lo <= i < hi (counted from 0)
SumWidths(widths, lo, hi) ==
    IF lo >= hi THEN 0 ELSE widths[hi] + SumWidths(widths, lo, hi - 1)

\* C15: for all indices 0 <= a, b <= len(), visual_distance(a, b) returns
\* what visual_distance(b, a) returns, the sum of positions over the
\* indices min(a, b) <= i < max(a, b).
C15_DistanceSymmetric ==
    row_last.op = "visual_distance" =>
        LET a == row_last.at
            b == row_last.to
            back == visual_distance(row, b, a)
        IN  /\ row_last.ok
            /\ back.ok
            /\ row_last.sum = back.sum
            /\ row_last.sum = SumWidths(row.positions, Min(a, b), Max(a, b))

\* visual_distance(3, 1) on a letter, a tab, a two-byte char: the widths of
\* the tab and the char after it, 8 + 1
C15_Witness ==
    /\ row_last.op = "visual_distance"
    /\ row.raw = <<LETTER, TAB, WIDE>>
    /\ row_last.at = 3
    /\ row_last.to = 1
    /\ row_last.ok
    /\ row_last.sum = 9

====
